---- MODULE Spec2Model ----
(***************************************************************************)
(* Model of the Mega-Cube simulator's voxel volume (SimDisplay.h/.cpp).    *)
(*                                                                         *)
(* Representation.                                                         *)
(*  - A Color is a triple <<r, g, b>> of 8-bit channels.                   *)
(*  - A 16x16x16 grid of Color is a function from the cells that are not   *)
(*    black to their colour; every other cell of the grid is black.  Get   *)
(*    reads a cell, Put writes one and keeps the representation canonical, *)
(*    so two grids are equal exactly when all their 4096 cells are equal.  *)
(*  - float values (world coordinates, radii) are integers counting        *)
(*    quarters: 30 stands for 7.5f.  Every float operation the code does   *)
(*    on such values (sums below 2^16, squares, comparisons) is exact in   *)
(*    IEEE single precision, so the integer arithmetic is the code's.      *)
(***************************************************************************)
EXTENDS Integers, Sequences, FiniteSets, TLC

VARIABLES
    cube,        \* Display::cube[2][16][16][16]
    cubeBuffer,  \* Display::cubeBuffer
    rawBuffer,   \* Display::rawBuffer[16][16][16][3]
    motionBlur,  \* simConfig.animation.motionBlur
    written,     \* history: cells the client wrote since the last update/begin
    log,         \* history: the calls made so far, oldest first
    pc,          \* main(): the statement the program is at
    currentDemo, \* main(): int currentDemo
    dt,          \* main(): float dt of the running tick, in time units
    lastTime,    \* Renderer::lastTime
    deltaTime,   \* Renderer::deltaTime
    keyStates,   \* Renderer::keyStates[512]: the keys whose entry is true
    keysDown,    \* GLFW: the keys glfwGetKey reports as GLFW_PRESS
    ret,         \* the value the last Renderer::wasKeyPressed returned
    rendered,    \* history: the frame Renderer::renderCube last drew
    trace,       \* history: the events of main(), oldest first
    cells_g1,    \* LifeDemo::cells_g1: the cells whose bit is set
    cells_g2,    \* LifeDemo::cells_g2: the cells whose bit is set
    rules,       \* LifeDemo::rules[27]
    hash_list,   \* LifeDemo::hash_list[256]
    hash_nr,     \* LifeDemo::hash_nr
    living,      \* LifeDemo::living
    sequence,    \* LifeDemo::sequence
    branch,      \* history: the branches LifeDemo::game_progress took, oldest first
    exploded,    \* FireworksDemo::exploded
    debris,      \* FireworksDemo::debris[0]: brightness and seconds
    shown        \* history: the brightness and factor of each drawing of debris[0]

displayVars == <<cube, cubeBuffer, rawBuffer, motionBlur, written, log>>
mainVars == <<pc, currentDemo, dt, lastTime, deltaTime, keyStates, keysDown,
              ret, rendered, trace>>
lifeVars == <<cells_g1, cells_g2, rules, hash_list, hash_nr, living, sequence,
              branch>>
fireVars == <<exploded, debris, shown>>
vars == <<displayVars, mainVars, lifeVars, fireVars>>

----------------------------------------------------------------------------
(* Bounds of the model *)

MaxCalls == 3      \* calls in a run of Spec
MaxPrimCalls == 2  \* calls in a run of SpecPrim
MaxRadiateCalls == 2  \* calls in a run of SpecRadiate
MaxTicks == 3      \* iterations of the main loop in a run of SpecMain
MaxKeyEvents == 4  \* key queries and event polls in a run of SpecKeys
MaxLifeCalls == 5  \* calls on the automaton in a run of SpecLife
MaxGenerations == 262  \* calls on the automaton in a run of SpecLifeRun
MaxReseeds == 4    \* reseeds in a run of SpecLifeRun
MaxRowCalls == 2   \* calls in a run of SpecRow
MaxFireFrames == 4 \* update calls in a run of SpecFireworks

----------------------------------------------------------------------------
(* Program constants *)

width == 16
height == 16
depth == 16
CX == 30           \* 7.5f, in quarters
CY == 30
CZ == 30
DefaultMotionBlur == 64

Black == <<0, 0, 0>>
EmptyGrid == [p \in {} |-> Black]

----------------------------------------------------------------------------
(* Fixed-width integer arithmetic *)

RECURSIVE BitAnd(_, _), BitOr(_, _)
\* a & b and a | b on non-negative bit patterns
BitAnd(a, b) ==
    IF a = 0 \/ b = 0 THEN 0
    ELSE (a % 2) * (b % 2) + 2 * BitAnd(a \div 2, b \div 2)

BitOr(a, b) ==
    IF a = 0 THEN b
    ELSE IF b = 0 THEN a
    ELSE (IF a % 2 = 1 \/ b % 2 = 1 THEN 1 ELSE 0) + 2 * BitOr(a \div 2, b \div 2)

\* the 16-bit two's complement pattern of an int16_t value
U16(x) == x % 65536

\* an int stored into an int16_t: reduced modulo 2^16 into -32768..32767
ToInt16(i) == ((i + 32768) % 65536) - 32768

\* C++ integer division and float -> integer conversion truncate toward zero
TruncDiv(a, b) == IF a >= 0 THEN a \div b ELSE -((-a) \div b)

\* What a build can make of (int16_t)f when trunc(f) is outside int16_t: the
\* conversion is undefined ([conv.fpint]).  "wrap": a 32-bit conversion
\* (cvttss2si, vcvt) of which the low 16 bits are kept; "sat": saturation, as a
\* compiler does when it folds the conversion of a known value.
CastOutcomes == {"wrap", "sat"}

\* (int16_t)f for a float f given in quarters
FloatToInt16(q, o) ==
    LET t == TruncDiv(q, 4)
    IN  IF t >= -32768 /\ t <= 32767 THEN t
        ELSE IF o = "wrap" THEN ToInt16(t)
        ELSE IF t > 0 THEN 32767 ELSE -32768

----------------------------------------------------------------------------
(* Color (power/Color.h) *)

Max(a, b) == IF a >= b THEN a ELSE b
Min(a, b) == IF a <= b THEN a ELSE b

\* Color::blend(weight, other): each channel moves linearly toward other
blend(c, w, o) ==
    LET mix(a, b) == (a * (255 - w) + b * w) \div 255
    IN  <<mix(c[1], o[1]), mix(c[2], o[2]), mix(c[3], o[3])>>

\* Color::scaled(factor): each channel times factor over 255
scaled(c, f) ==
    <<(c[1] * f) \div 255, (c[2] * f) \div 255, (c[3] * f) \div 255>>

\* Color::maximize(other): each channel the larger of the two
maximize(c, o) ==
    <<Max(c[1], o[1]), Max(c[2], o[2]), Max(c[3], o[3])>>

\* Color::operator+=(other): saturating sum
add(c, o) ==
    <<Min(255, c[1] + o[1]), Min(255, c[2] + o[2]), Min(255, c[3] + o[3])>>

----------------------------------------------------------------------------
(* Grids *)

Get(g, p) == IF p \in DOMAIN g THEN g[p] ELSE Black

Put(g, p, c) ==
    IF c = Black
    THEN [q \in DOMAIN g \ {p} |-> g[q]]
    ELSE [q \in DOMAIN g \cup {p} |-> IF q = p THEN c ELSE g[q]]

\* the grid that holds h[p] at every cell p of DOMAIN h and g elsewhere
PutAll(g, h) ==
    LET D == {p \in DOMAIN g \cup DOMAIN h :
                 (IF p \in DOMAIN h THEN h[p] ELSE g[p]) # Black}
    IN  [p \in D |-> IF p \in DOMAIN h THEN h[p] ELSE g[p]]

----------------------------------------------------------------------------
(* Log entries *)

Entry(op, p, c, r) == [op |-> op, p |-> p, c |-> c, r |-> r]
PrimNames == {"voxel", "voxel_Vector3", "voxel_add", "radiate", "radiate5"}
Last == IF Len(log) = 0 THEN Entry("none", <<0, 0, 0>>, Black, 0) ELSE log[Len(log)]

----------------------------------------------------------------------------
(* SimDisplay.h: client primitives *)

\* mutant: the mask 0xE0 in place of 0xF0
InRange8_NarrowMask(x, y, z) == BitAnd(BitOr(BitOr(x, y), z), 224) = 0

\* ((x | y | z) & 0xF0) == 0 on uint8_t coordinates
InRange8(x, y, z) == BitAnd(BitOr(BitOr(x, y), z), 240) = 0

\* ((x | y | z) & 0xFFF0) == 0 on int16_t coordinates
InRange16(x, y, z) == BitAnd(BitOr(BitOr(U16(x), U16(y)), U16(z)), 65520) = 0

\* voxel(uint8_t x, uint8_t y, uint8_t z, const Color& c)
voxel(x, y, z, c) ==
    /\ cube' = IF InRange8(x, y, z)
               THEN [cube EXCEPT ![cubeBuffer] = Put(@, <<x, y, z>>, c)]
               ELSE cube
    /\ written' = IF InRange8(x, y, z) THEN written \cup {<<x, y, z>>} ELSE written
    /\ log' = Append(log, Entry("voxel", <<x, y, z>>, c, 0))
    /\ UNCHANGED <<cubeBuffer, rawBuffer, motionBlur>>

\* (int16_t)(v + 32768.5f + CX) - 32768, stored into an int16_t
LatticeCoord(q, centre, o) ==
    ToInt16(FloatToInt16(q + 131074 + centre, o) - 32768)

\* voxel(const Vector3& v, const Color& c)
voxel_Vector3(v, c) ==
    \E ox, oy, oz \in CastOutcomes :
        LET x == LatticeCoord(v[1], CX, ox)
            y == LatticeCoord(v[2], CY, oy)
            z == LatticeCoord(v[3], CZ, oz)
        IN  /\ cube' = IF InRange16(x, y, z)
                       THEN [cube EXCEPT ![cubeBuffer] = Put(@, <<x, y, z>>, c)]
                       ELSE cube
            /\ written' = IF InRange16(x, y, z)
                          THEN written \cup {<<x, y, z>>} ELSE written
            /\ log' = Append(log, Entry("voxel_Vector3", v, c, 0))
            /\ UNCHANGED <<cubeBuffer, rawBuffer, motionBlur>>

\* voxel_add(const Vector3& v, const Color& c)
voxel_add(v, c) ==
    \E ox, oy, oz \in CastOutcomes :
        LET x == LatticeCoord(v[1], CX, ox)
            y == LatticeCoord(v[2], CY, oy)
            z == LatticeCoord(v[3], CZ, oz)
        IN  /\ cube' = IF InRange16(x, y, z)
                       THEN [cube EXCEPT ![cubeBuffer] =
                                Put(@, <<x, y, z>>, add(Get(@, <<x, y, z>>), c))]
                       ELSE cube
            /\ written' = IF InRange16(x, y, z)
                          THEN written \cup {<<x, y, z>>} ELSE written
            /\ log' = Append(log, Entry("voxel_add", v, c, 0))
            /\ UNCHANGED <<cubeBuffer, rawBuffer, motionBlur>>

----------------------------------------------------------------------------
(* SimDisplay.h: radiate and radiate5 *)

\* squared length of Vector3(x, y, z) - v, in squared quarters
Dist2(p, v) ==
    (4 * p[1] - v[1]) * (4 * p[1] - v[1])
    + (4 * p[2] - v[2]) * (4 * p[2] - v[2])
    + (4 * p[3] - v[3]) * (4 * p[3] - v[3])

RECURSIVE LeastLinear(_, _, _, _)
\* the least k in lo..hi with k >= 255 * sqrt(d2) / r
LeastLinear(lo, hi, d2, r) ==
    IF lo >= hi THEN hi
    ELSE LET mid == (lo + hi) \div 2
         IN  IF mid * mid * r * r >= 65025 * d2
             THEN LeastLinear(lo, mid, d2, r)
             ELSE LeastLinear(mid + 1, hi, d2, r)

\* mutant: 255 * (radius / r), brightest at the rim
LinearFalloff_Inverted(d2, r) == LeastLinear(0, 255, d2, r)

\* the uint8_t made of 255 * (1 - (radius / r)), for radius < r:
\* 255 - ceil(255 * radius / r), radius = sqrt(d2).  The quotient and the
\* product are taken exactly; single precision can differ by one unit where
\* the exact value is an integer.  It agrees at radius = 0 (255) and keeps the
\* result in 0..255.
LinearFalloff(d2, r) == 255 - LeastLinear(0, 255, d2, r)

\* k > 255 / (1 + radius^5), radius = sqrt(d2) / 4, i.e.
\* k * d2^5 > 2^20 * (255 - k)^2 / k, computed within 31 bits (d2 <= 24)
Exceeds5(k, d2) ==
    LET m == (255 - k) * (255 - k)
        n5 == d2 * d2 * d2 * d2 * d2
    IN  /\ k > 0
        /\ d2 > 0
        /\ m \div k < 1900
        /\ k * n5 > 1048576 * (m \div k) + (1048576 * (m % k)) \div k

RECURSIVE LeastPower(_, _, _)
\* the least k in lo..hi with k > 255 / (1 + radius^5), or hi
LeastPower(lo, hi, d2) ==
    IF lo >= hi THEN hi
    ELSE LET mid == (lo + hi) \div 2
         IN  IF Exceeds5(mid, d2)
             THEN LeastPower(lo, mid, d2)
             ELSE LeastPower(mid + 1, hi, d2)

\* the uint8_t made of 255 / (1 + radius^5)
PowerFalloff(d2, r) == LeastPower(0, 256, d2) - 1

\* the six (int16_t) conversions of radiate are defined
BoxDefined(v, r) ==
    \A i \in 1..3 : v[i] - r + 4 > -131072 /\ v[i] + r < 131072

\* the cells the three loops reach and both tests let through: the mask test
\* and radius < r (a conjunction, evaluated here with the cheaper test first)
Touched(v, r) ==
    LET lo(i) == TruncDiv(v[i] - r + 4, 4)
        hi(i) == TruncDiv(v[i] + r, 4)
    IN  {p \in (lo(1)..hi(1)) \X (lo(2)..hi(2)) \X (lo(3)..hi(3)) :
            Dist2(p, v) < r * r /\ InRange16(p[1], p[2], p[3])}

\* v0 + Vector3(CX, CY, CZ)
Centre(v0) == <<v0[1] + CX, v0[2] + CY, v0[3] + CZ>>

\* mutant: the scaled colour assigned to the cell, not maximized into it
radiateGrid_Overwrite(g, v0, c, r) ==
    LET v == <<v0[1] + CX, v0[2] + CY, v0[3] + CZ>>
    IN  PutAll(g, [p \in Touched(v, r) |-> scaled(c, LinearFalloff(Dist2(p, v), r))])

\* the grid radiate leaves: each touched cell maximized with the scaled colour
radiateGrid(g, v0, c, r) ==
    LET v == Centre(v0)
    IN  PutAll(g, [p \in Touched(v, r) |->
                      maximize(Get(g, p), scaled(c, LinearFalloff(Dist2(p, v), r)))])

\* the grid radiate5 leaves
radiate5Grid(g, v0, c, r) ==
    LET v == Centre(v0)
    IN  PutAll(g, [p \in Touched(v, r) |->
                      maximize(Get(g, p), scaled(c, PowerFalloff(Dist2(p, v), r)))])

\* radiate(const Vector3& v0, const Color& c, const float r)
radiate(v0, c, r) ==
    /\ BoxDefined(Centre(v0), r)
    /\ cube' = [cube EXCEPT ![cubeBuffer] = radiateGrid(@, v0, c, r)]
    /\ written' = written \cup Touched(Centre(v0), r)
    /\ log' = Append(log, Entry("radiate", v0, c, r))
    /\ UNCHANGED <<cubeBuffer, rawBuffer, motionBlur>>

\* mutant: radiate5 writing through the index 1 - cubeBuffer
radiate5_IntoOther(v0, c, r) ==
    /\ BoxDefined(Centre(v0), r)
    /\ cube' = [cube EXCEPT ![1 - cubeBuffer] = radiate5Grid(@, v0, c, r)]
    /\ written' = written \cup Touched(Centre(v0), r)
    /\ log' = Append(log, Entry("radiate5", v0, c, r))
    /\ UNCHANGED <<cubeBuffer, rawBuffer, motionBlur>>

\* radiate5(const Vector3& v0, const Color& c, const float r)
radiate5(v0, c, r) ==
    /\ BoxDefined(Centre(v0), r)
    /\ cube' = [cube EXCEPT ![cubeBuffer] = radiate5Grid(@, v0, c, r)]
    /\ written' = written \cup Touched(Centre(v0), r)
    /\ log' = Append(log, Entry("radiate5", v0, c, r))
    /\ UNCHANGED <<cubeBuffer, rawBuffer, motionBlur>>

----------------------------------------------------------------------------
(* radiate and radiate5 in single precision *)

(* The operators above take positions and radii in quarters, which float
   arithmetic handles exactly.  Here a float is an integer count of units of
   2^-26, so that radii one unit in the last place above 0.25 or 0.5 can be
   told from these, and every sum is rounded to the 24 bits of a float. *)

\* 1.0f
FineOne == 67108864

\* CX, CY, CZ: 7.5f
FineCX == 15 * (FineOne \div 2)

Magnitude(n) == IF n < 0 THEN -n ELSE n

\* the distance between neighbouring floats at magnitude m
RECURSIVE Quantum(_)
Quantum(m) == IF m < 16777216 THEN 1 ELSE 2 * Quantum(m \div 2)

\* the float nearest to n, ties to the even significand
RoundFloat(n) ==
    LET m == Magnitude(n)
        q == Quantum(m)
        lo == (m \div q) * q
        up == 2 * (m - lo) > q \/ (2 * (m - lo) = q /\ (lo \div q) % 2 = 1)
        res == IF up THEN lo + q ELSE lo
    IN  IF n < 0 THEN -res ELSE res

\* (int16_t) of a float within the range of int16_t: the fraction is dropped
TruncFine(n) == IF n < 0 THEN -((-n) \div FineOne) ELSE n \div FineOne

\* v = v0 + Vector3(CX, CY, CZ)
FineCentre(v0) == [i \in 1..3 |-> RoundFloat(v0[i] + FineCX)]

\* x1 = (int16_t)(v.x - r + 1); x2 = (int16_t)(v.x + r)
FineLow(v, r) == TruncFine(RoundFloat(RoundFloat(v - r) + FineOne))
FineHigh(v, r) == TruncFine(RoundFloat(v + r))

\* v.y and v.z are whole and r < 1: the cells of the row y = v.y, z = v.z are
\* the only ones that can be nearer than r, and for a cell of that row
\* (Vector3(x, y, z) - v).magnitude() is |x - v.x|, the root of a square
OnRow(v, r) ==
    /\ r > 0
    /\ r < FineOne
    /\ v[2] % FineOne = 0
    /\ v[3] % FineOne = 0

\* the cells the three loops reach and both tests let through
FineTouched(v, r) ==
    {p \in (FineLow(v[1], r)..FineHigh(v[1], r))
           \X (FineLow(v[2], r)..FineHigh(v[2], r))
           \X (FineLow(v[3], r)..FineHigh(v[3], r)) :
        /\ InRange16(p[1], p[2], p[3])
        /\ p[2] * FineOne = v[2]
        /\ p[3] * FineOne = v[3]
        /\ Magnitude(RoundFloat(p[1] * FineOne - v[1])) < r}

\* radiate and radiate5 with the colour black: a touched cell is maximized
\* with black scaled, which leaves it as it was, whatever the falloff
FineRadiate(op, v0, r) ==
    /\ OnRow(FineCentre(v0), r)
    /\ written' = written \cup FineTouched(FineCentre(v0), r)
    /\ log' = Append(log, Entry(op, v0, Black, r))
    /\ UNCHANGED <<cube, cubeBuffer, rawBuffer, motionBlur>>

----------------------------------------------------------------------------
(* SimDisplay.cpp *)

\* Display::clear(): memset(cube[cubeBuffer], 0, ...) on the given selector
Display_clear(cb, sel) == [cb EXCEPT ![sel] = EmptyGrid]

\* mutant: the previous buffer blended toward the current one
Composed_BlendReversed(cb, sel, blur) ==
    LET prev == 1 - sel
        S == DOMAIN cb[sel] \cup DOMAIN cb[prev]
    IN  PutAll(EmptyGrid, [p \in S |-> blend(Get(cb[prev], p), blur, Get(cb[sel], p))])

\* the raw frame Display::update composes
Composed(cb, sel, blur) ==
    LET prev == 1 - sel
        S == DOMAIN cb[sel] \cup DOMAIN cb[prev]
    IN  PutAll(EmptyGrid, [p \in S |-> blend(Get(cb[sel], p), blur, Get(cb[prev], p))])

\* mutant: clear() called before the selector is flipped
Display_update_ClearBeforeSwap ==
    /\ rawBuffer' = Composed(cube, cubeBuffer, motionBlur)
    /\ cube' = Display_clear(cube, cubeBuffer)
    /\ cubeBuffer' = 1 - cubeBuffer
    /\ written' = {}
    /\ log' = Append(log, Entry("update", <<0, 0, 0>>, Black, 0))
    /\ UNCHANGED motionBlur

\* Display::update()
Display_update ==
    /\ rawBuffer' = Composed(cube, cubeBuffer, motionBlur)
    /\ cubeBuffer' = 1 - cubeBuffer
    /\ cube' = Display_clear(cube, cubeBuffer')
    /\ written' = {}
    /\ log' = Append(log, Entry("update", <<0, 0, 0>>, Black, 0))
    /\ UNCHANGED motionBlur

\* Display::begin()
Display_begin ==
    /\ cube' = Display_clear(cube, cubeBuffer)
    /\ cubeBuffer' = 0
    /\ written' = {}
    /\ log' = Append(log, Entry("begin", <<0, 0, 0>>, Black, 0))
    /\ UNCHANGED <<rawBuffer, motionBlur>>

----------------------------------------------------------------------------
(* Renderer.cpp: the keyboard and the frame clock *)

GLFW_KEY_SPACE == 32
GLFW_KEY_R == 82
KeyStatesSize == 512

\* an event of the program: what ran, on which demo or key, and two values
Event(ev, n, a, b) == [ev |-> ev, n |-> n, a |-> a, b |-> b]

\* mutant: level-triggered, true for as long as the key is down
wasKeyPressed_WhileHeld(key) ==
    IF key < 0 \/ key >= KeyStatesSize THEN FALSE ELSE key \in keysDown

\* Renderer::wasKeyPressed(int key): the value returned
wasKeyPressed(key) ==
    IF key < 0 \/ key >= KeyStatesSize
    THEN FALSE
    ELSE LET currentState == key \in keysDown
         IN  currentState /\ key \notin keyStates

\* Renderer::wasKeyPressed(int key): keyStates afterwards
keyStatesAfter(key) ==
    IF key < 0 \/ key >= KeyStatesSize
    THEN keyStates
    ELSE IF key \in keysDown THEN keyStates \cup {key} ELSE keyStates \ {key}

\* the frame durations glfwGetTime() is seen to advance by between two reads
FrameTimes == {1, 2}

\* the sets of keys glfwPollEvents() may leave pressed
KeySets == SUBSET {GLFW_KEY_SPACE, GLFW_KEY_R}

----------------------------------------------------------------------------
(* main.cpp: main() *)

numDemos == 12

\* the number of loop iterations begun so far
Ticks == Cardinality({i \in 1..Len(trace) : trace[i].ev = "tick"})

\* main() entered, Renderer::init() returned true
MainStart ==
    /\ pc = "begin"
    /\ currentDemo = 0
    /\ dt = 0
    /\ lastTime = 0
    /\ deltaTime = 0
    /\ keyStates = {}
    /\ keysDown = {}
    /\ ret = FALSE
    /\ rendered = EmptyGrid
    /\ trace = << >>

\* Display::begin();
MainBegin ==
    /\ pc = "begin"
    /\ Display_begin
    /\ pc' = "init"
    /\ trace' = Append(trace, Event("Display_begin", 0, 0, 0))
    /\ UNCHANGED <<currentDemo, dt, lastTime, deltaTime, keyStates, keysDown,
                   ret, rendered, lifeVars, fireVars>>

\* int currentDemo = 0; demos[currentDemo]->init();
MainInit ==
    /\ pc = "init"
    /\ currentDemo' = 0
    /\ trace' = Append(trace, Event("init", currentDemo', 0, 0))
    /\ pc' = "loop"
    /\ UNCHANGED <<displayVars, dt, lastTime, deltaTime, keyStates, keysDown,
                   ret, rendered, lifeVars, fireVars>>

\* while (!Renderer::shouldClose()): the window's close flag and the state of
\* the escape key are inputs
LoopTest ==
    /\ pc = "loop"
    /\ Ticks < MaxTicks
    /\ \E shouldClose \in BOOLEAN :
          IF shouldClose
          THEN /\ pc' = "done"
               /\ trace' = Append(trace, Event("close", 0, 0, 0))
          ELSE /\ pc' = "getDeltaTime"
               /\ trace' = Append(trace, Event("tick", 0, 0, 0))
    /\ UNCHANGED <<displayVars, currentDemo, dt, lastTime, deltaTime, keyStates,
                   keysDown, ret, rendered, lifeVars, fireVars>>

\* float dt = Renderer::getDeltaTime();
GetDeltaTime ==
    /\ pc = "getDeltaTime"
    /\ dt' = deltaTime
    /\ pc' = "beginFrame"
    /\ UNCHANGED <<displayVars, currentDemo, lastTime, deltaTime, keyStates,
                   keysDown, ret, rendered, trace, lifeVars, fireVars>>

\* Renderer::beginFrame(): the clock is read, the camera is moved
BeginFrame ==
    /\ pc = "beginFrame"
    /\ \E d \in FrameTimes :
          LET currentTime == lastTime + d
          IN  /\ deltaTime' = currentTime - lastTime
              /\ lastTime' = currentTime
    /\ trace' = Append(trace, Event("beginFrame", 0, deltaTime', 0))
    /\ pc' = "space"
    /\ UNCHANGED <<displayVars, currentDemo, dt, keyStates, keysDown, ret,
                   rendered, lifeVars, fireVars>>

Bit(b) == IF b THEN 1 ELSE 0

\* one query of a key by main(), as an event
KeyEvent(key) == Event("wasKeyPressed", key, Bit(key \in keysDown), Bit(wasKeyPressed(key)))

\* mutant: the selection runs past the last demo
KeySpace_NoWrap ==
    /\ pc = "space"
    /\ ret' = wasKeyPressed(GLFW_KEY_SPACE)
    /\ keyStates' = keyStatesAfter(GLFW_KEY_SPACE)
    /\ currentDemo' = IF ret' THEN currentDemo + 1 ELSE currentDemo
    /\ trace' = trace \o <<KeyEvent(GLFW_KEY_SPACE)>> \o
                (IF ret'
                 THEN <<Event("select", currentDemo', 0, 0), Event("init", currentDemo', 0, 0)>>
                 ELSE << >>)
    /\ pc' = "reset"
    /\ UNCHANGED <<displayVars, dt, lastTime, deltaTime, keysDown, rendered, lifeVars, fireVars>>

\* if (Renderer::wasKeyPressed(GLFW_KEY_SPACE)) {
\*     currentDemo = (currentDemo + 1) % numDemos; demos[currentDemo]->init(); }
KeySpace ==
    /\ pc = "space"
    /\ ret' = wasKeyPressed(GLFW_KEY_SPACE)
    /\ keyStates' = keyStatesAfter(GLFW_KEY_SPACE)
    /\ currentDemo' = IF ret' THEN (currentDemo + 1) % numDemos ELSE currentDemo
    /\ trace' = trace \o <<KeyEvent(GLFW_KEY_SPACE)>> \o
                (IF ret'
                 THEN <<Event("select", currentDemo', 0, 0), Event("init", currentDemo', 0, 0)>>
                 ELSE << >>)
    /\ pc' = "reset"
    /\ UNCHANGED <<displayVars, dt, lastTime, deltaTime, keysDown, rendered, lifeVars, fireVars>>

\* if (Renderer::wasKeyPressed(GLFW_KEY_R)) { demos[currentDemo]->init(); }
KeyReset ==
    /\ pc = "reset"
    /\ ret' = wasKeyPressed(GLFW_KEY_R)
    /\ keyStates' = keyStatesAfter(GLFW_KEY_R)
    /\ trace' = trace \o <<KeyEvent(GLFW_KEY_R)>> \o
                (IF ret' THEN <<Event("init", currentDemo, 0, 0)>> ELSE << >>)
    /\ pc' = "update"
    /\ UNCHANGED <<displayVars, currentDemo, dt, lastTime, deltaTime, keysDown,
                   rendered, lifeVars, fireVars>>

\* the colour the demos draw with in the model
DemoColor == <<255, 150, 30>>

\* mutant: the demo after the selected one is advanced
DemoUpdate_NextDemo ==
    /\ pc = "update"
    /\ voxel((currentDemo + 1) % numDemos, 8, 8, DemoColor)
    /\ trace' = Append(trace, Event("update", (currentDemo + 1) % numDemos, dt, 0))
    /\ pc' = "Display_update"
    /\ UNCHANGED <<currentDemo, dt, lastTime, deltaTime, keyStates, keysDown,
                   ret, rendered, lifeVars, fireVars>>

\* demos[currentDemo]->update(dt): the demo draws its frame through the
\* primitives; its frame is one voxel whose place tells the demos apart
DemoUpdate ==
    /\ pc = "update"
    /\ voxel(currentDemo, 8, 8, DemoColor)
    /\ trace' = Append(trace, Event("update", currentDemo, dt, 0))
    /\ pc' = "Display_update"
    /\ UNCHANGED <<currentDemo, dt, lastTime, deltaTime, keyStates, keysDown,
                   ret, rendered, lifeVars, fireVars>>

\* Display::update();
MainDisplayUpdate ==
    /\ pc = "Display_update"
    /\ Display_update
    /\ trace' = Append(trace, Event("Display_update", 0, 0, 0))
    /\ pc' = "renderCube"
    /\ UNCHANGED <<currentDemo, dt, lastTime, deltaTime, keyStates, keysDown,
                   ret, rendered, lifeVars, fireVars>>

\* Renderer::renderCube(Display::getRawBuffer(), brightness): reads every cell
RenderCube ==
    /\ pc = "renderCube"
    /\ rendered' = rawBuffer
    /\ trace' = Append(trace, Event("renderCube", 0, 0, 0))
    /\ pc' = "endFrame"
    /\ UNCHANGED <<displayVars, currentDemo, dt, lastTime, deltaTime, keyStates,
                   keysDown, ret, lifeVars, fireVars>>

\* Renderer::endFrame(): glfwSwapBuffers, then glfwPollEvents takes the key
\* events that arrived
EndFrame ==
    /\ pc = "endFrame"
    /\ keysDown' \in KeySets
    /\ pc' = "loop"
    /\ UNCHANGED <<displayVars, currentDemo, dt, lastTime, deltaTime, keyStates,
                   ret, rendered, trace, lifeVars, fireVars>>

\* the loop head of a run in which demo k was selected some ticks ago and has
\* drawn the last two frames; the histories start here
MainAtLoop(k) ==
    LET frame == Put(EmptyGrid, <<k, 8, 8>>, DemoColor)
    IN  /\ cube = [b \in {0, 1} |-> IF b = 1 THEN frame ELSE EmptyGrid]
        /\ cubeBuffer = 0
        /\ rawBuffer = Composed([b \in {0, 1} |-> frame], 1, DefaultMotionBlur)
        /\ motionBlur = DefaultMotionBlur
        /\ written = {}
        /\ log = << >>
        /\ pc = "loop"
        /\ currentDemo = k
        /\ dt = 1
        /\ lastTime = 0
        /\ deltaTime = 1
        /\ keyStates = {}
        /\ keysDown \in KeySets
        /\ ret = FALSE
        /\ rendered = rawBuffer
        /\ trace = <<Event("select", k, 0, 0), Event("init", k, 0, 0)>>

----------------------------------------------------------------------------
(* main.cpp: LifeDemo *)

\* enum class rule_t : uint8_t { DIE = 0, LIVE = 1, BIRTH = 2 }
DIE == 0
LIVE == 1
BIRTH == 2

\* void game_rule_reset(): rules[i] = DIE for i in 0..26
AllDie == [i \in 0..26 |-> DIE]

\* the hash list with nothing stored: every entry reads 0
NoHashes == [i \in {} |-> 0]

\* new LifeDemo(): the members are zeroed, then the initialisers run
LifeConstructed ==
    /\ cells_g1 = {}
    /\ cells_g2 = {}
    /\ rules = AllDie
    /\ hash_list = NoHashes
    /\ hash_nr = 0
    /\ living = 0
    /\ sequence = 0
    /\ branch = << >>

\* FireworksDemo after construction: exploded = false, numDebris = 0
FireworksConstructed ==
    /\ exploded = FALSE
    /\ debris = [brightness |-> 0, seconds |-> 1000]
    /\ shown = << >>

\* a grid of the automaton is the set of cells <<x, y, z>> whose bit z of
\* cells[x][y] is set

AllCells == (0..15) \X (0..15) \X (0..15)

\* x & 0xF on an int16_t in -1..16: two's complement, so the residue mod 16
Wrap(x) == x % 16

\* the 26 offsets of the 3x3x3 block around a cell, the cell itself left out
Offsets == ((-1..1) \X (-1..1) \X (-1..1)) \ {<<0, 0, 0>>}

\* the cell the loops of count_neighbours read at offset d from p
Neighbour(p, d) == <<Wrap(p[1] + d[1]), Wrap(p[2] + d[2]), Wrap(p[3] + d[3])>>

\* mutant: the neighbours past an edge are dropped, not wrapped
count_neighbours_Clamped(g, p) ==
    Cardinality({d \in Offsets :
        /\ <<p[1] + d[1], p[2] + d[2], p[3] + d[3]>> \in AllCells
        /\ <<p[1] + d[1], p[2] + d[2], p[3] + d[3]>> \in g})

\* uint16_t count_neighbours(x_, y_, z_) on the grid g (the code reads cells_g1)
count_neighbours(g, p) == Cardinality({d \in Offsets : Neighbour(p, d) \in g})

\* the cells with a live cell in their block: every other cell counts 0
Near(g) == UNION {{Neighbour(p, d) : d \in Offsets} : p \in g}

\* the neighbour counts that are not 0, by cell
Counts(g) == [p \in Near(g) |-> count_neighbours(g, p)]

\* the bit of a cell after rules[count] is applied to it
RuleKeeps(r, count, alive) == r[count] = BIRTH \/ (r[count] = LIVE /\ alive)

\* x * 3 + y * 5 + z * 7
Weight(p) == p[1] * 3 + p[2] * 5 + p[3] * 7

\* hash += count * (x * 3 + y * 5 + z * 7) over the loop nest, in the
\* order of the loops; the cells outside DOMAIN cnt add 0 and are skipped,
\* and the total is below 2^25, so the uint32_t sum does not wrap
RECURSIVE HashZ(_, _)
HashZ(cnt, column) ==
    IF column = {} THEN 0
    ELSE LET p == CHOOSE q \in column : \A o \in column : q[3] <= o[3]
         IN  cnt[p] * Weight(p) + HashZ(cnt, column \ {p})

RECURSIVE HashY(_, _, _)
HashY(cnt, slab, y) ==
    IF y = 16 THEN 0
    ELSE HashZ(cnt, {p \in slab : p[2] = y}) + HashY(cnt, slab, y + 1)

RECURSIVE HashX(_, _)
HashX(cnt, x) ==
    IF x = 16 THEN 0
    ELSE HashY(cnt, {p \in DOMAIN cnt : p[1] = x}, 0) + HashX(cnt, x + 1)

\* the place of a cell in the order of the loops over x, y, z
LoopIndex(p) == p[1] * 256 + p[2] * 16 + p[3]

\* mutant: each cell reads the grid as updated so far, in loop order; the
\* cells without a live cell around them stay dead and are passed over
RECURSIVE InPlace(_, _, _)
InPlace(g, r, i) ==
    LET todo == {q \in Near(g) \cup g : LoopIndex(q) >= i}
    IN  IF todo = {} THEN g
        ELSE LET q == CHOOSE c \in todo : \A o \in todo : LoopIndex(c) <= LoopIndex(o)
                 keep == RuleKeeps(r, count_neighbours(g, q), q \in g)
             IN  InPlace(IF keep THEN g \cup {q} ELSE g \ {q}, r, LoopIndex(q) + 1)

game_next_generation_InPlace(g2, r) ==
    LET new == InPlace(g2, r, 0)
    IN  [cells_g1 |-> g2, cells_g2 |-> new, living |-> Cardinality(new),
         hash |-> HashX(Counts(g2), 0)]

\* uint32_t game_next_generation(): the members afterwards and the value
\* returned, from the current generation g2 and the rule table r
game_next_generation(g2, r) ==
    LET cnt == Counts(g2)
        new == {p \in DOMAIN cnt : RuleKeeps(r, cnt[p], p \in g2)}
               \cup (IF r[0] = DIE THEN {}
                     ELSE {p \in AllCells \ DOMAIN cnt : RuleKeeps(r, 0, p \in g2)})
    IN  [cells_g1 |-> g2, cells_g2 |-> new, living |-> Cardinality(new),
         hash |-> HashX(cnt, 0)]

\* one call on the automaton, as an event: what it did, the preset it seeded
\* with, the hash of the step it made and the population that step left
LifeEvent(kind, preset, hash, pop) ==
    [kind |-> kind, preset |-> preset, hash |-> hash, pop |-> pop]

\* void game_reset(); void init() override { game_reset(); }
game_reset ==
    /\ living' = 0
    /\ hash_nr' = 0
    /\ cells_g1' = {}
    /\ cells_g2' = {}
    /\ rules' = AllDie
    /\ branch' = Append(branch, LifeEvent("reset", 0, 0, 0))
    /\ UNCHANGED <<hash_list, sequence>>

\* 7.5f, in quarters
LifeCentre == 30

\* roundf of a value in quarters: to nearest, halves away from zero
roundf(q) == IF q >= 0 THEN (q + 2) \div 4 ELSE -((2 - q) \div 4)

\* a draw (r, theta, psi) is the displacement r * (sin psi cos theta,
\* sin psi sin theta, cos psi) it stands for, in quarters; its length is r
InBall(d, rad) == d[1] * d[1] + d[2] * d[2] + d[3] * d[3] <= rad * rad

\* (uint16_t)roundf(7.5f + displacement) on the three axes
CellOf(d) == <<U16(roundf(LifeCentre + d[1])), U16(roundf(LifeCentre + d[2])),
               U16(roundf(LifeCentre + d[3]))>>

\* mutant: the cells next to a face of the volume are dropped as well
Seeded_InnerOnly(D) == {CellOf(d) : d \in D} \cap ((2..13) \X (2..13) \X (2..13))

\* the cells game_randomize sets for the draws D: those with x, y, z < 16
Seeded(D) == {CellOf(d) : d \in D} \cap AllCells

\* a draw that lands on the cell p
Aim(p) == <<4 * p[1] - LifeCentre, 4 * p[2] - LifeCentre, 4 * p[3] - LifeCentre>>

\* void game_randomize(uint16_t amount, float rad), D the displacements drawn
game_randomize(amount, D) ==
    /\ cells_g2' = Seeded(D)
    /\ living' = amount

\* the rule table the switch builds for the preset k, on a table reset before
RulesOf(k) ==
    CASE k = 0 -> [AllDie EXCEPT ![4] = LIVE, ![5] = BIRTH]
      [] k = 1 -> [AllDie EXCEPT ![5] = LIVE, ![7] = LIVE, ![6] = BIRTH]
      [] k = 2 -> [AllDie EXCEPT ![5] = BIRTH, ![6] = LIVE]
      [] OTHER -> [AllDie EXCEPT ![5] = BIRTH, ![6] = LIVE, ![7] = LIVE, ![8] = LIVE]

\* mutant: the rotation restarts one preset early
SequenceAfter_SkipLast(k) == IF k \in {0, 1} THEN k + 1 ELSE 0

\* sequence after switch (sequence++): the default case stores 0
SequenceAfter(k) == IF k \in {0, 1, 2} THEN k + 1 ELSE 0

\* 200 + rand() % 200 for the first three presets, 25 for the last
Amounts(k) == IF k \in {0, 1, 2} THEN {200, 399} ELSE {25}

\* noise.nextRandom(5.0f, 7.0f) for the first three presets, 3.0f for the
\* last, in quarters
Radii(k) == IF k \in {0, 1, 2} THEN {20, 28} ELSE {12}

\* the ways a build may run the scan of hash_list once hash_nr has reached
\* 256 (uint8_t i is below hash_nr for ever and the loop has no side effect):
\* never leave it, or leave it having counted too few or enough matches
LoopOutcomes == {"hang", "few", "enough"}

\* matches: the entries 0..hash_nr-1 of hash_list that equal hash
HashAt(i) == IF i \in DOMAIN hash_list THEN hash_list[i] ELSE 0
Matches(hash) == Cardinality({i \in 0..(hash_nr - 1) : HashAt(i) = hash})

\* hash_list[i] = v
Store(h, i, v) == [j \in DOMAIN h \cup {i} |-> IF j = i THEN v ELSE h[j]]

\* the preset the switch runs for a value of sequence
PresetOf(k) == IF k \in {0, 1, 2} THEN k ELSE 3

\* the population at which the stagnation branch is taken whatever the hash
PopulationLimit == 500

\* mutant: the stagnation branch without game_rule_reset()
AfterScan_KeepRules(s, scan) ==
    IF scan = "hang"
    THEN /\ cells_g1' = s.cells_g1
         /\ cells_g2' = s.cells_g2
         /\ living' = s.living
         /\ branch' = Append(branch, LifeEvent("hang", 0, s.hash, s.living))
         /\ UNCHANGED <<rules, hash_list, hash_nr, sequence>>
    ELSE IF scan = "enough" \/ s.living >= PopulationLimit
    THEN \E t \in {game_next_generation(s.cells_g2, rules)} :
             /\ cells_g1' = t.cells_g1
             /\ cells_g2' = t.cells_g2
             /\ living' = t.living
             /\ branch' = Append(branch, LifeEvent("stagnant", 0, s.hash, s.living))
             /\ UNCHANGED <<rules, hash_list, hash_nr, sequence>>
    ELSE /\ hash_list' = Store(hash_list, hash_nr % 256, s.hash)
         /\ hash_nr' = hash_nr + 1
         /\ cells_g1' = s.cells_g1
         /\ cells_g2' = s.cells_g2
         /\ living' = s.living
         /\ branch' = Append(branch, LifeEvent("record", 0, s.hash, s.living))
         /\ UNCHANGED <<rules, sequence>>

\* game_progress from the scan of hash_list on, s the step just made and
\* scan the way the scan ended
AfterScan(s, scan) ==
    IF scan = "hang"
    THEN /\ cells_g1' = s.cells_g1
         /\ cells_g2' = s.cells_g2
         /\ living' = s.living
         /\ branch' = Append(branch, LifeEvent("hang", 0, s.hash, s.living))
         /\ UNCHANGED <<rules, hash_list, hash_nr, sequence>>
    ELSE IF scan = "enough" \/ s.living >= PopulationLimit
    THEN \E t \in {game_next_generation(s.cells_g2, AllDie)} :
             /\ rules' = AllDie
             /\ cells_g1' = t.cells_g1
             /\ cells_g2' = t.cells_g2
             /\ living' = t.living
             /\ branch' = Append(branch, LifeEvent("stagnant", 0, s.hash, s.living))
             /\ UNCHANGED <<hash_list, hash_nr, sequence>>
    ELSE /\ hash_list' = Store(hash_list, hash_nr % 256, s.hash)
         /\ hash_nr' = hash_nr + 1
         /\ cells_g1' = s.cells_g1
         /\ cells_g2' = s.cells_g2
         /\ living' = s.living
         /\ branch' = Append(branch, LifeEvent("record", 0, s.hash, s.living))
         /\ UNCHANGED <<rules, sequence>>

\* void game_progress(), DS the sets of displacements a reseed may draw
game_progress(DS) ==
    \E s \in {game_next_generation(cells_g2, rules)} :
        IF s.living = 0
        THEN /\ \E amount \in Amounts(sequence), rad \in Radii(sequence), D \in DS :
                   /\ D # {}
                   /\ Cardinality(D) <= amount
                   /\ \A d \in D : InBall(d, rad)
                   /\ game_randomize(amount, D)
             /\ cells_g1' = {}
             /\ hash_nr' = 0
             /\ rules' = RulesOf(sequence)
             /\ sequence' = SequenceAfter(sequence)
             /\ branch' = Append(branch, LifeEvent("extinct", PresetOf(sequence), s.hash, 0))
             /\ UNCHANGED hash_list
        ELSE IF hash_nr >= 256
        THEN \E scan \in LoopOutcomes : AfterScan(s, scan)
        ELSE AfterScan(s, IF Matches(s.hash) >= 6 THEN "enough" ELSE "few")

\* a call of game_progress that never returned
Hung == Len(branch) > 0 /\ branch[Len(branch)].kind = "hang"

----------------------------------------------------------------------------
(* The calls a run makes *)

Red == <<255, 0, 0>>
Teal == <<10, 200, 90>>
Grey == <<100, 100, 100>>

\* arguments of voxel(uint8_t, uint8_t, uint8_t, Color)
VoxelArgs == {<<8, 8, 8, Teal>>, <<16, 8, 8, Red>>}

\* arguments of voxel(Vector3, Color) and voxel_add(Vector3, Color)
VectorArgs == {<<<<0, 0, 0>>, Red>>}
AddArgs == {<<<<0, 0, 0>>, Grey>>}

\* arguments of radiate and radiate5
RadiateArgs == {<<<<2, 2, 2>>, Teal, 6>>}
Radiate5Args == {<<<<2, 2, 2>>, Red, 5>>}

\* the values of simConfig.animation.motionBlur a run is configured with
BlurValues == {0, DefaultMotionBlur, 255}

\* static initialisation: zeroed arrays, cubeBuffer = 0
Init ==
    /\ cube = [b \in {0, 1} |-> EmptyGrid]
    /\ cubeBuffer = 0
    /\ rawBuffer = EmptyGrid
    /\ motionBlur \in BlurValues
    /\ written = {}
    /\ log = << >>
    /\ MainStart
    /\ LifeConstructed
    /\ FireworksConstructed

CallVoxel ==
    /\ Len(log) < MaxCalls
    /\ \E a \in VoxelArgs : voxel(a[1], a[2], a[3], a[4])
    /\ UNCHANGED <<mainVars, lifeVars, fireVars>>

CallVoxelVector3 ==
    /\ Len(log) < MaxCalls
    /\ \E a \in VectorArgs : voxel_Vector3(a[1], a[2])
    /\ UNCHANGED <<mainVars, lifeVars, fireVars>>

CallVoxelAdd ==
    /\ Len(log) < MaxCalls
    /\ \E a \in AddArgs : voxel_add(a[1], a[2])
    /\ UNCHANGED <<mainVars, lifeVars, fireVars>>

CallRadiate ==
    /\ Len(log) < MaxCalls
    /\ \E a \in RadiateArgs : radiate(a[1], a[2], a[3])
    /\ UNCHANGED <<mainVars, lifeVars, fireVars>>

CallRadiate5 ==
    /\ Len(log) < MaxCalls
    /\ \E a \in Radiate5Args : radiate5(a[1], a[2], a[3])
    /\ UNCHANGED <<mainVars, lifeVars, fireVars>>

CallUpdate ==
    /\ Len(log) < MaxCalls
    /\ Display_update
    /\ UNCHANGED <<mainVars, lifeVars, fireVars>>

CallBegin ==
    /\ Len(log) < MaxCalls
    /\ Display_begin
    /\ UNCHANGED <<mainVars, lifeVars, fireVars>>

Next ==
    \/ CallVoxel
    \/ CallVoxelVector3
    \/ CallVoxelAdd
    \/ CallRadiate
    \/ CallRadiate5
    \/ CallUpdate
    \/ CallBegin

Spec == Init /\ [][Next]_vars

----------------------------------------------------------------------------
(* The primitives on many arguments: runs of few calls, default motion blur *)

PrimVoxelArgs ==
    {<<p[1], p[2], p[3], Red>> :
        p \in {<<0, 0, 0>>, <<15, 15, 15>>, <<8, 8, 8>>,
               <<16, 0, 0>>, <<0, 16, 0>>, <<0, 0, 16>>,
               <<255, 8, 8>>, <<8, 128, 8>>, <<8, 8, 240>>,
               <<15, 15, 32>>, <<17, 1, 1>>}}
    \cup {<<8, 8, 8, Teal>>, <<8, 8, 8, Black>>}

PrimVectorArgs ==
    {<<<<0, 0, 0>>, Red>>,          \* 7.5: halfway, cell 8
     <<<<-30, -30, -30>>, Teal>>,   \* 0.0: cell 0
     <<<<-32, -32, -32>>, Red>>,    \* -0.5: halfway, cell 0
     <<<<-33, 0, 0>>, Red>>,        \* -0.75: rounds to -1
     <<<<31, 1, -1>>, Teal>>,       \* 15.25, 7.75, 7.25: cell (15, 8, 7)
     <<<<32, 0, 0>>, Red>>,         \* 15.5: rounds to 16
     <<<<0, 0, 200>>, Teal>>,       \* 57.5
     <<<<0, -400, 0>>, Red>>}       \* -92.5

PrimAddArgs ==
    {<<<<0, 0, 0>>, Grey>>, <<<<0, 0, 0>>, Red>>, <<<<-33, 0, 0>>, Grey>>}

PrimRadiateArgs ==
    {<<<<2, 2, 2>>, Teal, 6>>,        \* on cell 8, r = 1.5
     <<<<2, 2, 2>>, Red, 2>>,         \* on cell 8, r = 0.5
     <<<<2, 2, 2>>, Grey, 4>>,        \* on cell 8, r = 1.0: neighbours at distance r
     <<<<0, 0, 0>>, Red, 6>>,         \* between cells 7 and 8
     <<<<-30, -30, -30>>, Teal, 10>>, \* on the corner cell 0, r = 2.5
     <<<<-38, 2, 2>>, Red, 12>>}      \* outside the volume, r = 3.0

PrimRadiate5Args ==
    {<<<<2, 2, 2>>, Red, 5>>, <<<<2, 2, 2>>, Teal, 4>>, <<<<0, 0, 0>>, Teal, 4>>}

InitPrim ==
    /\ cube = [b \in {0, 1} |-> EmptyGrid]
    /\ cubeBuffer = 0
    /\ rawBuffer = EmptyGrid
    /\ motionBlur = DefaultMotionBlur
    /\ written = {}
    /\ log = << >>
    /\ MainStart
    /\ LifeConstructed
    /\ FireworksConstructed

PrimVoxel ==
    /\ Len(log) < MaxPrimCalls
    /\ \E a \in PrimVoxelArgs : voxel(a[1], a[2], a[3], a[4])
    /\ UNCHANGED <<mainVars, lifeVars, fireVars>>

PrimVoxelVector3 ==
    /\ Len(log) < MaxPrimCalls
    /\ \E a \in PrimVectorArgs : voxel_Vector3(a[1], a[2])
    /\ UNCHANGED <<mainVars, lifeVars, fireVars>>

PrimVoxelAdd ==
    /\ Len(log) < MaxPrimCalls
    /\ \E a \in PrimAddArgs : voxel_add(a[1], a[2])
    /\ UNCHANGED <<mainVars, lifeVars, fireVars>>

PrimRadiate ==
    /\ Len(log) < MaxPrimCalls
    /\ \E a \in PrimRadiateArgs : radiate(a[1], a[2], a[3])
    /\ UNCHANGED <<mainVars, lifeVars, fireVars>>

PrimRadiate5 ==
    /\ Len(log) < MaxPrimCalls
    /\ \E a \in PrimRadiate5Args : radiate5(a[1], a[2], a[3])
    /\ UNCHANGED <<mainVars, lifeVars, fireVars>>

PrimUpdate ==
    /\ Len(log) < MaxPrimCalls
    /\ Display_update
    /\ UNCHANGED <<mainVars, lifeVars, fireVars>>

NextPrim ==
    \/ PrimVoxel
    \/ PrimVoxelVector3
    \/ PrimVoxelAdd
    \/ PrimRadiate
    \/ PrimRadiate5
    \/ PrimUpdate

SpecPrim == InitPrim /\ [][NextPrim]_vars

----------------------------------------------------------------------------
(* radiate and radiate5 alone: runs of overlapping spheres *)

SphereArgs == PrimRadiateArgs \cup {<<<<6, 2, 2>>, Red, 6>>}   \* on cell 9

RadRadiate ==
    /\ Len(log) < MaxRadiateCalls
    /\ \E a \in SphereArgs : radiate(a[1], a[2], a[3])
    /\ UNCHANGED <<mainVars, lifeVars, fireVars>>

RadRadiate5 ==
    /\ Len(log) < MaxRadiateCalls
    /\ \E a \in PrimRadiate5Args : radiate5(a[1], a[2], a[3])
    /\ UNCHANGED <<mainVars, lifeVars, fireVars>>

NextRadiate ==
    \/ RadRadiate
    \/ RadRadiate5

SpecRadiate == InitPrim /\ [][NextRadiate]_vars

----------------------------------------------------------------------------
(* radiate and radiate5 on a row of cells, with radii next to 0.25 and 0.5 *)

\* v0.x: the centre 0.25, 0.5, 8 and 15 cells along the row
RowCentres == {FineOne \div 4 - FineCX, FineOne \div 2 - FineCX,
               8 * FineOne - FineCX, 15 * FineOne - FineCX}

\* the rows y = z = 0 and y = z = 15
RowCells == {0, 15}

\* r: 0.25, the next float above it, 0.5, the next float above it
RowRadii == {FineOne \div 4, FineOne \div 4 + 2, FineOne \div 2, FineOne \div 2 + 4}

RowRadiate ==
    /\ Len(log) < MaxRowCalls
    /\ \E x \in RowCentres, k \in RowCells, r \in RowRadii :
           FineRadiate("radiate", <<x, k * FineOne - FineCX, k * FineOne - FineCX>>, r)
    /\ UNCHANGED <<mainVars, lifeVars, fireVars>>

RowRadiate5 ==
    /\ Len(log) < MaxRowCalls
    /\ \E x \in RowCentres, k \in RowCells, r \in RowRadii :
           FineRadiate("radiate5", <<x, k * FineOne - FineCX, k * FineOne - FineCX>>, r)
    /\ UNCHANGED <<mainVars, lifeVars, fireVars>>

NextRow ==
    \/ RowRadiate
    \/ RowRadiate5

SpecRow == InitPrim /\ [][NextRow]_vars

----------------------------------------------------------------------------
(* FireworksDemo (main.cpp) *)

(* One fragment, debris[0], is followed; the other fragments run the same
   statements on their own fields.  Times are in milliseconds, brightness in
   units of 1/2000, so that dt * (1 / seconds) is a whole number of units for
   the lifetimes 1.0f and 2.0f.  Particle::move and the positions are left
   to a choice: the class is not part of these sources. *)

\* brightness 1.0f
FireOne == 2000

WHITE == <<255, 255, 255>>

\* dt: 0, 0.4 s and 1 s
FireDts == {0, 400, 1000}

\* noise.nextRandom(1.0f, 2.0f): the ends of the range
Lifetimes == {1000, 2000}

\* missile.position * radius and debris[i].position * radius, in quarters
MissileAt == <<0, -30, 0>>
DebrisAt == <<0, 0, 0>>

\* if (brightness > 0) brightness -= dt * (1 / seconds); else brightness = 0;
Dimmed(p, d) ==
    IF p.brightness > 0
    THEN p.brightness - (d * FireOne) \div p.seconds
    ELSE 0

\* (uint8_t)(brightness * 255): the fraction is dropped; a product of -1 or
\* less has no uint8_t value and the conversion is undefined: "wrap" keeps
\* the low 8 bits of a wider conversion, "sat" gives 0
Factor(b, o) ==
    LET t == TruncDiv(b * 255, FireOne)
    IN  IF t \in 0..255 THEN t
        ELSE IF o = "wrap" THEN t % 256
        ELSE 0

\* the loop body of the exploded branch for debris[0]: p the fragment, d the
\* frame time, others whether another fragment was still visible
DrawDebris(p, d, others) ==
    \E o \in CastOutcomes :
        /\ voxel_add(DebrisAt, scaled(WHITE, Factor(Dimmed(p, d), o)))
        /\ debris' = [p EXCEPT !.brightness = Dimmed(p, d)]
        /\ shown' = Append(shown, [brightness |-> Dimmed(p, d),
                                   factor |-> Factor(Dimmed(p, d), o)])
        /\ exploded' = (p.brightness > 0 \/ others)

\* void init() override { fireArrow(); }
FireworksInit ==
    /\ exploded' = FALSE
    /\ UNCHANGED <<debris, shown>>
    /\ UNCHANGED <<displayVars, mainVars, lifeVars>>

\* void update(float dt) override
FireworksUpdate ==
    /\ Len(log) < MaxFireFrames
    /\ \E d \in FireDts, others \in BOOLEAN :
           IF exploded
           THEN DrawDebris(debris, d, others)
           ELSE \E reached \in BOOLEAN :
                    IF reached
                    THEN \E s \in Lifetimes :
                             DrawDebris([brightness |-> FireOne, seconds |-> s], d, others)
                    ELSE /\ voxel_Vector3(MissileAt, WHITE)
                         /\ UNCHANGED fireVars
    /\ UNCHANGED <<mainVars, lifeVars>>

NextFireworks ==
    \/ FireworksInit
    \/ FireworksUpdate

SpecFireworks == InitPrim /\ [][NextFireworks]_vars

----------------------------------------------------------------------------
(* main(): from its entry, and from a loop head with the last demo current *)

InitMain ==
    /\ LifeConstructed
    /\ FireworksConstructed
    /\ \/ /\ cube = [b \in {0, 1} |-> EmptyGrid]
          /\ cubeBuffer = 0
          /\ rawBuffer = EmptyGrid
          /\ motionBlur = DefaultMotionBlur
          /\ written = {}
          /\ log = << >>
          /\ MainStart
       \/ MainAtLoop(numDemos - 1)

NextMain ==
    \/ MainBegin
    \/ MainInit
    \/ LoopTest
    \/ GetDeltaTime
    \/ BeginFrame
    \/ KeySpace
    \/ KeyReset
    \/ DemoUpdate
    \/ MainDisplayUpdate
    \/ RenderCube
    \/ EndFrame

SpecMain == InitMain /\ [][NextMain]_vars

----------------------------------------------------------------------------
(* Renderer::wasKeyPressed alone: any keys queried in any order *)

\* the keys queried: two below 0 or past the array, the ends of the array, Space
QueryKeys == {-1, 0, GLFW_KEY_SPACE, KeyStatesSize - 1, KeyStatesSize}

\* the sets of keys an event poll may leave pressed
PolledKeySets == SUBSET {0, GLFW_KEY_SPACE, KeyStatesSize - 1}

QueryKey ==
    /\ Len(trace) < MaxKeyEvents
    /\ \E key \in QueryKeys :
          /\ ret' = wasKeyPressed(key)
          /\ keyStates' = keyStatesAfter(key)
          /\ trace' = Append(trace, KeyEvent(key))
    /\ UNCHANGED <<displayVars, pc, currentDemo, dt, lastTime, deltaTime,
                   keysDown, rendered, lifeVars, fireVars>>

PollEvents ==
    /\ Len(trace) < MaxKeyEvents
    /\ keysDown' \in PolledKeySets \ {keysDown}
    /\ trace' = Append(trace, Event("glfwPollEvents", 0, 0, 0))
    /\ UNCHANGED <<displayVars, pc, currentDemo, dt, lastTime, deltaTime,
                   keyStates, ret, rendered, lifeVars, fireVars>>

NextKeys ==
    \/ QueryKey
    \/ PollEvents

SpecKeys == InitPrim /\ [][NextKeys]_vars

----------------------------------------------------------------------------
(* LifeDemo: short runs of its public operations *)

\* seeds of the model, as cells
CentreCell == {<<8, 8, 8>>}
Blinker == {<<7, 8, 7>>, <<7, 8, 9>>, <<8, 8, 7>>, <<8, 8, 8>>, <<8, 8, 9>>}

\* the sets of displacements a reseed draws: all draws on the centre, or
\* draws at the full radius 7.0f along the axes
Extremes == {<<28, 0, 0>>, <<-28, 0, 0>>, <<0, -28, 0>>, <<0, 0, 28>>}
LifeDrawSets == {{Aim(p) : p \in CentreCell}, Extremes}

\* init()
LifeInit ==
    /\ Len(branch) < MaxLifeCalls
    /\ ~Hung
    /\ game_reset
    /\ UNCHANGED <<displayVars, mainVars, fireVars>>

\* game_randomize(1, 0.0f): one draw of radius 0
LifeRandomize ==
    /\ Len(branch) < MaxLifeCalls
    /\ ~Hung
    /\ game_randomize(1, {<<0, 0, 0>>})
    /\ branch' = Append(branch, LifeEvent("randomize", 0, 0, 0))
    /\ UNCHANGED <<displayVars, mainVars, cells_g1, rules, hash_list, hash_nr, sequence, fireVars>>

\* game_next_generation()
LifeNextGeneration ==
    /\ Len(branch) < MaxLifeCalls
    /\ ~Hung
    /\ \E s \in {game_next_generation(cells_g2, rules)} :
           /\ cells_g1' = s.cells_g1
           /\ cells_g2' = s.cells_g2
           /\ living' = s.living
           /\ branch' = Append(branch, LifeEvent("step", 0, s.hash, s.living))
    /\ UNCHANGED <<displayVars, mainVars, rules, hash_list, hash_nr, sequence, fireVars>>

\* game_progress()
LifeProgress ==
    /\ Len(branch) < MaxLifeCalls
    /\ ~Hung
    /\ game_progress(LifeDrawSets)
    /\ UNCHANGED <<displayVars, mainVars, fireVars>>

NextLife ==
    \/ LifeInit
    \/ LifeRandomize
    \/ LifeNextGeneration
    \/ LifeProgress

SpecLife == InitPrim /\ [][NextLife]_vars

----------------------------------------------------------------------------
(* LifeDemo as the main loop drives it: init(), then game_progress only *)

\* a glider of Life 5766 and a seed that Life 5855 grows past 500 cells
Glider == {<<6, 6, 9>>, <<6, 7, 9>>, <<7, 6, 7>>, <<7, 6, 9>>, <<7, 7, 7>>,
           <<7, 7, 9>>, <<8, 6, 8>>, <<8, 6, 9>>, <<8, 7, 8>>, <<8, 7, 9>>}
Grower == {<<7, 7, 7>>, <<7, 8, 7>>, <<8, 7, 9>>, <<8, 8, 8>>, <<8, 9, 9>>, <<9, 7, 8>>,
           <<9, 7, 9>>, <<9, 8, 7>>, <<9, 8, 8>>, <<9, 8, 9>>, <<9, 9, 8>>}

RunDrawSets == {{Aim(p) : p \in S} : S \in {Glider, Blinker, Grower}}

\* the reseeds made so far
Reseeds(b) == Cardinality({i \in 1..Len(b) : b[i].kind = "extinct"})

\* demos[currentDemo]->init() on the automaton
RunInit ==
    /\ Len(branch) = 0
    /\ game_reset
    /\ UNCHANGED <<displayVars, mainVars, fireVars>>

\* LifeDemo::update(dt) once time_phase has passed two intervals
RunProgress ==
    /\ Len(branch) \in 1..(MaxGenerations - 1)
    /\ ~Hung
    /\ game_progress(RunDrawSets)
    /\ Reseeds(branch') <= MaxReseeds
    /\ UNCHANGED <<displayVars, mainVars, fireVars>>

NextLifeRun ==
    \/ RunInit
    \/ RunProgress

SpecLifeRun == InitPrim /\ [][NextLifeRun]_vars

----------------------------------------------------------------------------
(* Vocabulary of the claims *)

\* a step that is the call named op
Calls(op) == Len(log') = Len(log) + 1 /\ log'[Len(log')].op = op

\* the call a step makes
TheCall == log'[Len(log')]

InLattice(p) ==
    /\ p[1] \in 0..(width - 1)
    /\ p[2] \in 0..(height - 1)
    /\ p[3] \in 0..(depth - 1)

\* the cells in which either of two grids may be other than black
Cells(g, h) == DOMAIN g \cup DOMAIN h

\* round to nearest, halves up, of a value in quarters
Round(q) == (q + 2) \div 4

----------------------------------------------------------------------------
(* C1: voxel(x, y, z, c) with any coordinate >= 16 changes no cell of either   *)
(* buffer; with all three in 0..15 it sets cell [x][y][z] of the buffer        *)
(* cubeBuffer selects to c and changes no other cell.                          *)

C1_VoxelEffect ==
    Calls("voxel") =>
        LET target == TheCall.p
            inside == target[1] <= 15 /\ target[2] <= 15 /\ target[3] <= 15
        IN  \A b \in {0, 1} :
                \A p \in Cells(cube[b], cube'[b]) \cup {target} :
                    Get(cube'[b], p) =
                        IF inside /\ b = cubeBuffer /\ p = target
                        THEN TheCall.c
                        ELSE Get(cube[b], p)

C1_VoxelBounds == [][C1_VoxelEffect]_vars

\* an out-of-range call (coordinate 255) was made on a buffer that holds colour
C1_Witness ==
    /\ Last.op = "voxel"
    /\ Last.p[1] = 255
    /\ cube[cubeBuffer] # EmptyGrid

----------------------------------------------------------------------------
(* C2: a call of voxel, voxel_add, radiate or radiate5 leaves the buffer that  *)
(* is not current, the selector and the raw frame unchanged: every write lands *)
(* in cube[cubeBuffer].                                                        *)

C2_PrimitiveFrame ==
    (\E op \in PrimNames : Calls(op)) =>
        /\ cube'[1 - cubeBuffer] = cube[1 - cubeBuffer]
        /\ cubeBuffer' = cubeBuffer
        /\ rawBuffer' = rawBuffer

C2_WritesTargetCurrent == [][C2_PrimitiveFrame]_vars

\* a primitive wrote into the current buffer while the other buffer and the
\* raw frame held the previous frame
C2_Witness ==
    /\ Last.op \in PrimNames
    /\ cube[cubeBuffer] # EmptyGrid
    /\ cube[1 - cubeBuffer] # EmptyGrid
    /\ rawBuffer # EmptyGrid

----------------------------------------------------------------------------
(* C3: from a Display::update until the next one, the buffer that is not       *)
(* current equals the blended frame that update wrote to the raw frame.        *)

\* an update has run and begin() has not run since
AfterUpdate ==
    \E i \in 1..Len(log) :
        /\ log[i].op = "update"
        /\ \A j \in (i + 1)..Len(log) : log[j].op # "begin"

C3_ReadBufferIsComposed ==
    AfterUpdate => cube[1 - cubeBuffer] = rawBuffer

----------------------------------------------------------------------------
(* C4: Display::update flips cubeBuffer once, leaves the new write buffer      *)
(* black, and leaves the buffer the client wrote during the frame as it was.   *)

C4_UpdateEffect ==
    Calls("update") =>
        /\ cubeBuffer' = 1 - cubeBuffer
        /\ cube'[cubeBuffer'] = EmptyGrid
        /\ cube'[cubeBuffer] = cube[cubeBuffer]

C4_Rotation == [][C4_UpdateEffect]_vars

\* an update has run on a frame the client wrote into
C4_Witness ==
    /\ Last.op = "update"
    /\ cube[1 - cubeBuffer] # EmptyGrid
    /\ cube[cubeBuffer] = EmptyGrid

----------------------------------------------------------------------------
(* C5: with motionBlur = 0 the raw frame Display::update produces equals the   *)
(* write buffer as it was before the call, whatever the other buffer holds.    *)

C5_UpdateEffect ==
    (Calls("update") /\ motionBlur = 0) => rawBuffer' = cube[cubeBuffer]

C5_NoBlur == [][C5_UpdateEffect]_vars

\* two updates with motionBlur = 0 after a write: the second composes a black
\* write buffer over a previous buffer that holds the written cell
C5_Witness ==
    /\ motionBlur = 0
    /\ Len(log) = 3
    /\ log[1].op = "voxel" /\ log[1].p = <<8, 8, 8>>
    /\ log[2].op = "update"
    /\ log[3].op = "update"
    /\ rawBuffer = EmptyGrid

----------------------------------------------------------------------------
(* C6: with motionBlur = 255, every cell the client did not write during the   *)
(* frame shows in the raw frame the value it had in the previous raw frame.    *)

C6_UpdateEffect ==
    (Calls("update") /\ motionBlur = 255) =>
        \A p \in Cells(rawBuffer, rawBuffer') \ written :
            Get(rawBuffer', p) = Get(rawBuffer, p)

C6_FullRetention == [][C6_UpdateEffect]_vars

----------------------------------------------------------------------------
(* C7: voxel(Vector3 v, c) sets the cell (round(v.x + 7.5), round(v.y + 7.5),  *)
(* round(v.z + 7.5)) of the current buffer to c when that cell is in the       *)
(* lattice, and writes nothing otherwise.                                      *)

C7_VectorEffect ==
    Calls("voxel_Vector3") =>
        LET v == TheCall.p
            cell == <<Round(v[1] + CX), Round(v[2] + CY), Round(v[3] + CZ)>>
        IN  cube' = IF InLattice(cell)
                    THEN [cube EXCEPT ![cubeBuffer] = Put(@, cell, TheCall.c)]
                    ELSE cube

C7_NearestCell == [][C7_VectorEffect]_vars

----------------------------------------------------------------------------
(* C8: begin(), voxel(Vector3(0,0,0), Color(255,0,0)), update() with           *)
(* motionBlur = 0 leaves a raw frame whose cell (8,8,8) is (255,0,0) and whose *)
(* other cells are black.                                                      *)

C8_EndToEnd ==
    (/\ motionBlur = 0
     /\ Len(log) = 3
     /\ log[1].op = "begin"
     /\ log[2] = Entry("voxel_Vector3", <<0, 0, 0>>, Red, 0)
     /\ log[3].op = "update")
    => rawBuffer = Put(EmptyGrid, <<8, 8, 8>>, Red)

----------------------------------------------------------------------------
(* C9: radiate(center, C, r) leaves every cell at distance >= r from the       *)
(* centre as it was, and a cell at distance 0 takes C at full intensity: each  *)
(* of its channels becomes the larger of its old value and C's.                *)

C9_RadiateEffect ==
    Calls("radiate") =>
        LET v == Centre(TheCall.p)
            r == TheCall.r
            old == cube[cubeBuffer]
            new == cube'[cubeBuffer]
            at == <<v[1] \div 4, v[2] \div 4, v[3] \div 4>>
        IN  /\ \A p \in Cells(old, new) :
                    Dist2(p, v) >= r * r => Get(new, p) = Get(old, p)
            /\ (InLattice(at) /\ Dist2(at, v) = 0) =>
                    \A i \in 1..3 :
                        Get(new, at)[i] = Max(Get(old, at)[i], TheCall.c[i])

----------------------------------------------------------------------------
(* C10: radiate and radiate5 only maximize: no channel of a cell decreases or  *)
(* rises above the larger of its old value and the colour's channel; the same  *)
(* call repeated changes nothing; two calls give the same buffer in either     *)
(* order.                                                                      *)

\* the grid a radiate or radiate5 call e leaves when made on grid g
Radiated(g, e) ==
    IF e.op = "radiate" THEN radiateGrid(g, e.p, e.c, e.r)
    ELSE radiate5Grid(g, e.p, e.c, e.r)

\* the calls a radiate or radiate5 step is exchanged with
OtherRadiateCalls ==
    {Entry("radiate", <<2, 2, 2>>, Teal, 6), Entry("radiate", <<6, 2, 2>>, Red, 6),
     Entry("radiate5", <<2, 2, 2>>, Red, 5), Entry("radiate5", <<0, 0, 0>>, Teal, 4)}

C10_RadiateEffect ==
    (Calls("radiate") \/ Calls("radiate5")) =>
        LET old == cube[cubeBuffer]
            new == cube'[cubeBuffer]
        IN  /\ \A p \in Cells(old, new) : \A i \in 1..3 :
                    /\ Get(old, p)[i] <= Get(new, p)[i]
                    /\ Get(new, p)[i] <= Max(Get(old, p)[i], TheCall.c[i])
                    /\ Get(new, p)[i] <= 255
            /\ Radiated(new, TheCall) = new
            /\ \A e \in OtherRadiateCalls :
                    Radiated(new, e) = Radiated(Radiated(old, e), TheCall)

C10_MaximizeOnly == [][C10_RadiateEffect]_vars

\* radiate5 in red ran over a radiate in teal: the centre cell holds the
\* larger channel of each
C10_Witness ==
    /\ Last.op = "radiate5"
    /\ Get(cube[cubeBuffer], <<8, 8, 8>>) = <<255, 200, 90>>

----------------------------------------------------------------------------
(* The main loop *)

\* the place in trace of the last event named ev, 0 when there is none
LastIndex(ev) ==
    LET S == {i \in 1..Len(trace) : trace[i].ev = ev}
    IN  IF S = {} THEN 0 ELSE CHOOSE i \in S : \A j \in S : j <= i

\* the events of the running tick, the ones that advance, compose or draw
IsFrameEvent(e) == e.ev \in {"update", "Display_update", "renderCube"}
TickFrameEvents ==
    SelectSeq(SubSeq(trace, LastIndex("tick") + 1, Len(trace)), IsFrameEvent)

\* C11: when a tick reaches endFrame it has run exactly one update(dt), on the
\* selected demo, then exactly one Display::update, then one renderCube, in
\* that order; the frame drawn is the raw buffer that Display::update
\* composed, and the last two calls on the volume are the demo's write and
\* Display::update, so nothing wrote between the composition and the render.
C11_TickOrder ==
    pc = "endFrame" =>
        /\ TickFrameEvents = <<Event("update", currentDemo, dt, 0),
                               Event("Display_update", 0, 0, 0),
                               Event("renderCube", 0, 0, 0)>>
        /\ rendered = rawBuffer
        /\ Len(log) >= 2
        /\ log[Len(log)].op = "update"
        /\ log[Len(log) - 1] = Entry("voxel", <<currentDemo, 8, 8>>, DemoColor, 0)

\* a second tick is complete, on a demo selected with the space key
C11_Witness ==
    /\ pc = "endFrame"
    /\ Ticks = 2
    /\ currentDemo = 1
    /\ Get(rendered, <<1, 8, 8>>) # Black

\* the events trace gains in a step
NewEvents == SubSeq(trace', Len(trace) + 1, Len(trace'))

\* the update at place i follows an init() of its demo that is later than
\* the last selection before i
InitialisedAt(i) ==
    \E j \in 1..(i - 1) :
        /\ trace[j] = Event("init", trace[i].n, 0, 0)
        /\ \A k \in (j + 1)..(i - 1) : trace[k].ev # "select"

C12_Selected ==
    /\ currentDemo \in 0..(numDemos - 1)
    /\ \A i \in 1..Len(trace) : trace[i].ev = "update" => InitialisedAt(i)

C12_KeyStep ==
    /\ (pc = "init" /\ pc' = "loop") =>
           /\ currentDemo' = 0
           /\ NewEvents = <<Event("init", 0, 0, 0)>>
    /\ (pc = "space" /\ pc' = "reset") =>
           IF ret'
           THEN /\ currentDemo' = (currentDemo + 1) % numDemos
                /\ NewEvents[Len(NewEvents)] = Event("init", currentDemo', 0, 0)
           ELSE /\ currentDemo' = currentDemo
                /\ \A i \in 1..Len(NewEvents) : NewEvents[i].ev # "init"
    /\ (pc = "reset" /\ pc' = "update") =>
           /\ currentDemo' = currentDemo
           /\ IF ret'
              THEN NewEvents[Len(NewEvents)] = Event("init", currentDemo, 0, 0)
              ELSE \A i \in 1..Len(NewEvents) : NewEvents[i].ev # "init"

\* C12: currentDemo stays in 0..numDemos-1 and every update(dt) follows an
\* init() of the same demo made since that demo last became current; the
\* first demo is initialised before the loop, a Space press selects
\* (currentDemo+1) mod numDemos and initialises it, an R press initialises the
\* current demo, and a query that reports no press initialises nothing.
C12_InitOnSelect == []C12_Selected /\ [][C12_KeyStep]_vars

\* the selection has wrapped from the last demo to the first, which was reset
\* with R as well and then advanced
C12_Witness ==
    /\ pc = "Display_update"
    /\ currentDemo = 0
    /\ \E i, j \in 1..Len(trace) :
          /\ i < j
          /\ trace[i] = Event("select", 0, 0, 0)
          /\ trace[j] = Event("wasKeyPressed", GLFW_KEY_R, 1, 1)

----------------------------------------------------------------------------
(* The keyboard *)

\* whether the last query of key before this one saw the key down; a key
\* never queried counts as seen up
SeenDownBefore(key) ==
    LET S == {i \in 1..Len(trace) : trace[i].ev = "wasKeyPressed" /\ trace[i].n = key}
    IN  IF S = {} THEN FALSE
        ELSE trace[CHOOSE i \in S : \A j \in S : j <= i].a = 1

C13_QueryEffect ==
    (Len(trace') = Len(trace) + 1 /\ trace'[Len(trace')].ev = "wasKeyPressed") =>
        LET key == trace'[Len(trace')].n
        IN  IF key \in 0..(KeyStatesSize - 1)
            THEN ret' = (key \in keysDown /\ ~SeenDownBefore(key))
            ELSE ret' = FALSE /\ keyStates' = keyStates

\* C13: a query of a key in 0..511 returns true exactly when the key is down
\* and the previous query of that same key saw it up (a key held across
\* queries reports once); a query of a key outside 0..511 returns false and
\* leaves keyStates as it was.
C13_PressOnly == [][C13_QueryEffect]_vars

\* Space was reported pressed, then held across the next query of Space, and
\* a key past the array was queried while Space was down
C13_Witness ==
    \E i, j, k \in 1..Len(trace) :
        /\ i < j
        /\ trace[i] = Event("wasKeyPressed", GLFW_KEY_SPACE, 1, 1)
        /\ trace[j] = Event("wasKeyPressed", GLFW_KEY_SPACE, 1, 0)
        /\ \A h \in (i + 1)..(j - 1) : trace[h].n # GLFW_KEY_SPACE
        /\ trace[k] = Event("wasKeyPressed", KeyStatesSize, 0, 0)

----------------------------------------------------------------------------
(* The cellular automaton *)

\* the event a step adds to branch, when it adds one
Called == Len(branch') = Len(branch) + 1
TheEvent == branch'[Len(branch')]

\* a step that is a call of game_progress
Progressed == Called /\ TheEvent.kind \in {"extinct", "stagnant", "record", "hang"}

\* the presets of the reseeds made so far, oldest first
IsReseed(e) == e.kind = "extinct"
PresetsUsed(b) == [i \in 1..Len(SelectSeq(b, IsReseed)) |-> SelectSeq(b, IsReseed)[i].preset]

\* the population one generation step leaves, from the state before the call
PopulationAfterStep == game_next_generation(cells_g2, rules).living

C14_ProgressEffect ==
    Progressed =>
        IF PopulationAfterStep = 0
        THEN /\ TheEvent.kind = "extinct"
             /\ TheEvent.preset = Len(PresetsUsed(branch)) % 4
             /\ rules' = RulesOf(TheEvent.preset)
             /\ cells_g1' = {}
             /\ hash_nr' = 0
             /\ \E D \in LifeDrawSets : cells_g2' = Seeded(D)
        ELSE /\ TheEvent.kind # "extinct"
             /\ sequence' = sequence

\* C14: a game_progress call whose generation step leaves population 0 resets
\* the grid and reseeds in that same call, with the preset whose number is the
\* count of earlier reseeds mod 4 (0,1,2,3,0,...), and no other call reseeds
\* or moves the rotation; a single live cell under the all-DIE table is such
\* a case.
C14_Rotation == [][C14_ProgressEffect]_vars

\* five extinctions in a row have used the presets 0, 1, 2, 3 and 0 again
C14_Witness == PresetsUsed(branch) = <<0, 1, 2, 3, 0>>

C15_ReseedEffect ==
    (Progressed /\ TheEvent.kind = "extinct") =>
        /\ cells_g2' # {}
        /\ living' > 0
        /\ \A rad \in Radii(TheEvent.preset) : \A q \in (-rad)..rad :
               roundf(LifeCentre + q) \in 0..15

\* C15: a game_progress call that took the extinction branch leaves at least
\* one bit set in cells_g2 and living above 0; a coordinate drawn at any
\* distance up to the preset's radius from 7.5 rounds to 0..15, so no draw is
\* discarded by the bounds test.
C15_Populated == [][C15_ReseedEffect]_vars

\* a reseed all of whose draws were at the full radius 7.0f, on the axes
C15_Witness ==
    /\ Len(branch) > 0
    /\ branch[Len(branch)].kind = "extinct"
    /\ cells_g2 = {<<15, 8, 8>>, <<1, 8, 8>>, <<8, 1, 8>>, <<8, 8, 15>>}
    /\ living = 399

\* how often a hash stands among the generations recorded since the last
\* reset, of which the ring buffer keeps the last 256
C16_Recurrences(hash) ==
    Cardinality({i \in 0..((IF hash_nr < 256 THEN hash_nr ELSE 256) - 1) : HashAt(i) = hash})

C16_BranchEffect ==
    Progressed =>
        \E s \in {game_next_generation(cells_g2, rules)} :
            s.living > 0 =>
                IF C16_Recurrences(s.hash) >= 6 \/ s.living >= PopulationLimit
                THEN /\ TheEvent.kind = "stagnant"
                     /\ rules' = AllDie
                     /\ cells_g1' = s.cells_g2
                     /\ cells_g2' = game_next_generation(s.cells_g2, AllDie).cells_g2
                     /\ UNCHANGED <<hash_list, hash_nr, sequence>>
                ELSE /\ TheEvent.kind = "record"
                     /\ hash_list' = Store(hash_list, hash_nr % 256, s.hash)
                     /\ hash_nr' = hash_nr + 1
                     /\ rules' = rules
                     /\ cells_g1' = s.cells_g1
                     /\ cells_g2' = s.cells_g2
                     /\ sequence' = sequence

\* C16: a game_progress call whose generation step leaves cells alive takes
\* the stagnation branch exactly when the step's hash stands at least 6 times
\* among the last 256 recorded generations or the population has reached the
\* ceiling of 500; the branch sets every rule to DIE, computes one more
\* generation and neither reseeds nor records; any other such call stores the
\* hash in the ring buffer and leaves rules and grid as the step produced them.
C16_StagnationBranch == [][C16_BranchEffect]_vars

\* two indices of one axis that are equal or next to each other on the ring
\* 0, 1, ..., 15, 0
C18_Adjacent(a, b) == (a - b) % 16 \in {0, 1, 15}

\* the live cells of g in the 3x3x3 block around p, p itself left out
C18_LiveAround(g, p) ==
    {q \in g : q # p /\ \A i \in 1..3 : C18_Adjacent(p[i], q[i])}

\* the cells asked about: every cell with a live cell in its block, every
\* live cell, and the eight corners of the volume
C18_Asked == Near(cells_g1) \cup cells_g1 \cup ({0, 15} \X {0, 15} \X {0, 15})

\* C18: count_neighbours(x, y, z) is the number of live cells of the previous
\* generation among the 26 cells around (x, y, z) with the coordinates taken
\* modulo 16 on all three axes, and it lies in 0..26, inside the rule table.
C18_ToroidalCount ==
    \A p \in C18_Asked : \E n \in {count_neighbours(cells_g1, p)} :
        /\ n = Cardinality(C18_LiveAround(cells_g1, p))
        /\ n \in 0..26
        /\ n \in DOMAIN rules

\* the previous generation has a cell at index 15 that the cell at index 0
\* counts, and a cell at index 0 that the cell at index 15 counts
C18_Witness ==
    /\ \E p \in cells_g1 : p[1] = 15 /\ count_neighbours(cells_g1, <<0, p[2], p[3]>>) > 0
    /\ \E p \in cells_g1 : p[3] = 0 /\ count_neighbours(cells_g1, <<p[1], p[2], 15>>) > 0

\* new is what one synchronous step under the rule table r makes of old:
\* each bit is cleared, set or kept by the rule for the count of its
\* neighbours in old. A cell that is dead in old and in new and has no live
\* cell around it needs no look when rules[0] is DIE, as in every preset.
C19_IsStep(old, r, new) ==
    /\ r[0] = DIE
    /\ \A p \in Near(old) \cup old \cup new \cup ({0, 15} \X {0, 15} \X {0, 15}) :
           \E n \in {count_neighbours(old, p)} :
               (p \in new) <=> IF r[n] = DIE THEN FALSE
                               ELSE IF r[n] = BIRTH THEN TRUE
                               ELSE p \in old

C19_StepEffect ==
    Called =>
        /\ TheEvent.kind \in {"record", "hang"} =>
               /\ cells_g1' = cells_g2
               /\ C19_IsStep(cells_g2, rules, cells_g2')
               /\ living' = Cardinality(cells_g2')
        /\ TheEvent.kind = "stagnant" =>
               /\ C19_IsStep(cells_g2, rules, cells_g1')
               /\ C19_IsStep(cells_g1', AllDie, cells_g2')
               /\ living' = Cardinality(cells_g2')

\* C19: game_next_generation leaves in cells_g1 the value cells_g2 had before
\* the call, computes every bit of the new cells_g2 from that old generation
\* alone (cleared for DIE, set for BIRTH, the old bit for LIVE, by the count
\* of neighbours in the old generation), and sets living to the number of
\* set bits of the new cells_g2; the stagnation branch makes two such steps.
C19_Synchronous == [][C19_StepEffect]_vars

\* a generation step in which a cell was born, a cell died and a cell stayed
C19_Witness ==
    /\ Len(branch) > 0
    /\ branch[Len(branch)].kind = "record"
    /\ cells_g2 \ cells_g1 # {}
    /\ cells_g1 \ cells_g2 # {}
    /\ cells_g1 \cap cells_g2 # {}

----------------------------------------------------------------------------
(* The bounding box of radiate and radiate5 *)

\* the cells of the row of the centre v that are nearer to it than r
C20_NearerThan(v, r) ==
    {<<x, v[2] \div FineOne, v[3] \div FineOne>> : x \in {c \in 0..15 : Magnitude(c * FineOne - v[1]) < r}}

C20_CallEffect ==
    Len(log') = Len(log) + 1 =>
        /\ C20_NearerThan(FineCentre(log'[Len(log')].p), log'[Len(log')].r) \subseteq written'
        /\ written' \subseteq (0..15) \X (0..15) \X (0..15)

\* C20: a call of radiate or radiate5 touches every cell with coordinates in
\* 0..15 whose distance to the centre is below r, the box from
\* (int16_t)(v - r + 1) to (int16_t)(v + r) leaving none of them out, and it
\* touches no cell outside 0..15.
C20_BoxCoversSphere == [][C20_CallEffect]_vars

----------------------------------------------------------------------------
(* Termination of game_progress *)

\* C21: every call of game_progress returns, the scan of hash_list ending
\* also once 256 or more generations in a row were recorded (hash_nr >= 256).
C21_ScanEnds == \A i \in 1..Len(branch) : branch[i].kind # "hang"

----------------------------------------------------------------------------
(* The population counter *)

\* C22: after every operation of LifeDemo (game_reset, game_randomize,
\* game_next_generation, game_progress) living is the number of set bits of
\* cells_g2.
C22_LivingIsPopulation == living = Cardinality(cells_g2)

----------------------------------------------------------------------------
(* After stagnation *)

C23_StagnationEffect ==
    /\ (Called /\ TheEvent.kind = "stagnant") =>
           /\ cells_g2' = {}
           /\ living' = 0
           /\ rules' = AllDie
    /\ (Progressed /\ Len(branch) > 0 /\ branch[Len(branch)].kind = "stagnant") =>
           /\ TheEvent.kind = "extinct"
           /\ TheEvent.preset = Len(PresetsUsed(branch)) % 4
           /\ rules' = RulesOf(TheEvent.preset)
           /\ sequence' = SequenceAfter(sequence)

\* C23: a game_progress call that takes the stagnation branch leaves no cell
\* alive (the generation made under the all-DIE table clears every bit), and
\* the game_progress call right after it takes the extinction branch and
\* reseeds with the next preset of the rotation.
C23_SettlesEmpty == [][C23_StagnationEffect]_vars

\* a stagnation that came after two generations kept alternating, and the
\* reseed of the call after it
C23_Witness ==
    \E i \in 1..(Len(branch) - 1) :
        /\ branch[i].kind = "stagnant"
        /\ branch[i].pop > 0
        /\ branch[i + 1].kind = "extinct"

----------------------------------------------------------------------------
(* Display::begin *)

\* C24: when Display::begin() has returned, at startup or after any number of
\* frames, cubeBuffer is 0 and every cell of the write buffer cube[0] is
\* black.
C24_BeginLeavesBlack ==
    (Len(log) > 0 /\ log[Len(log)].op = "begin") =>
        /\ cubeBuffer = 0
        /\ \A p \in DOMAIN cube[0] : cube[0][p] = Black

----------------------------------------------------------------------------
(* The brightness of a drawn fragment *)

\* C25: every time a debris fragment is drawn its brightness lies in [0, 1],
\* so that brightness * 255 lies in 0..255 and is not negative, and a
\* fragment whose brightness has run out is drawn with the factor 0.
C25_BrightnessInRange ==
    \A i \in 1..Len(shown) :
        /\ shown[i].brightness >= 0
        /\ shown[i].brightness <= FireOne
        /\ shown[i].brightness * 255 \in 0..(255 * FireOne)
        /\ shown[i].brightness = 0 => shown[i].factor = 0

----------------------------------------------------------------------------
(* The dt of a tick *)

\* the place in trace of the last beginFrame before the place i
C26_FrameBefore(i) ==
    CHOOSE j \in 0..(i - 1) :
        /\ j > 0 => trace[j].ev = "beginFrame"
        /\ \A k \in (j + 1)..(i - 1) : trace[k].ev # "beginFrame"

\* C26: the dt each update(dt) receives is the elapsed time that the
\* beginFrame of the same tick measured, the first tick's included.
C26_FreshDt ==
    \A i \in 1..Len(trace) :
        trace[i].ev = "update" =>
            /\ C26_FrameBefore(i) > 0
            /\ trace[i].a = trace[C26_FrameBefore(i)].a

====
